---- MODULE Spec2Model ----
(***************************************************************************)
(* Model of accelerometer/accProcess.py: main(), the command line entry    *)
(* point that resolves the configuration, validates it, runs the stages    *)
(* processInputFileToEpoch -> getActivitySummary -> writeTimeSeries,        *)
(* writes the summary file, and deletes the intermediate files at exit.    *)
(*                                                                         *)
(* A path is a sequence of atoms: "/" (the separator), "." (a dot) and     *)
(* names that hold neither.  The empty sequence is the empty string "".    *)
(***************************************************************************)
EXTENDS Integers, Sequences, FiniteSets, TLC

\* ------------------------------------------------------------------ bounds
\* how many command line options differ from their defaults in one run
MaxDeviations == 2
\* startTime / endTime are drawn from 0..MaxTime (or are absent)
MaxTime == 1
\* how many headline keys a returning stage may leave unpopulated
MaxMissing == 1
\* how many times the program is run in succession (SpecTwice)
MaxRuns == 2

\* ------------------------------------------------------- program constants
MinSampleRate == 25
FilterMaxRate == 40
DefaultSampleRate == 100

None == -1

\* ------------------------------------------------------------------- paths
SEP == "/"
DOT == "."

RECURSIVE LastIndexOf(_, _)
\* the greatest i with p[i] = c, 0 when there is none (str.rfind + 1)
LastIndexOf(p, c) ==
  IF p = <<>> THEN 0
  ELSE IF p[Len(p)] = c THEN Len(p)
  ELSE LastIndexOf(SubSeq(p, 1, Len(p) - 1), c)

RECURSIVE FirstIndexOf(_, _)
\* the least i with p[i] = c, Len(p) + 1 when there is none
FirstIndexOf(p, c) ==
  IF p = <<>> THEN 1
  ELSE IF Head(p) = c THEN 1
  ELSE 1 + FirstIndexOf(Tail(p), c)

RECURSIVE RStripSep(_)
\* head.rstrip('/')
RStripSep(p) ==
  IF p # <<>> /\ p[Len(p)] = SEP THEN RStripSep(SubSeq(p, 1, Len(p) - 1)) ELSE p

AllSep(p) == \A i \in 1..Len(p) : p[i] = SEP

\* os.path.split(p): <<head, tail>>; tail holds no separator, head has its
\* trailing separators stripped unless it is the root
OsPathSplit(p) ==
  LET i    == LastIndexOf(p, SEP)
      head == SubSeq(p, 1, i)
      tail == SubSeq(p, i + 1, Len(p))
  IN  <<IF AllSep(head) THEN head ELSE RStripSep(head), tail>>

\* os.path.join(a, b)
OsPathJoin(a, b) ==
  IF b # <<>> /\ Head(b) = SEP THEN b
  ELSE IF a = <<>> \/ a[Len(a)] = SEP THEN a \o b
  ELSE a \o <<SEP>> \o b

\* s.split('.')[0]
SplitDotFirst(s) == SubSeq(s, 1, FirstIndexOf(s, DOT) - 1)

\* len(s.split('.'))
SplitDotLen(s) == 1 + Cardinality({i \in 1..Len(s) : s[i] = DOT})

\* the fixed suffixes of the derived files (lines 283-289)
SummarySuffix    == <<"-summary", DOT, "json">>
NonWearSuffix    == <<"-nonWearBouts", DOT, "csv", DOT, "gz">>
EpochSuffix      == <<"-epoch", DOT, "csv", DOT, "gz">>
StationarySuffix == <<"-stationaryPoints", DOT, "csv", DOT, "gz">>
TsSuffix         == <<"-timeSeries", DOT, "csv", DOT, "gz">>
RawSuffix        == <<DOT, "csv", DOT, "gz">>
NpySuffix        == <<DOT, "npy">>
CwaExt           == <<DOT, "cwa">>

\* ------------------------------------------------------- the command line
FolderOptions ==
  {"summaryFolder", "nonWearFolder", "epochFolder", "stationaryFolder",
   "timeSeriesFolder", "rawFolder", "npyFolder"}

FileFields ==
  {"summaryFile", "nonWearFile", "epochFile", "stationaryFile", "tsFile",
   "rawFile", "npyFile"}

Options ==
  {"inputFile", "sampleRate", "useFilter", "processInputFile",
   "deleteIntermediateFiles", "startTime", "endTime",
   "csvTimeXYZTempColsIndex", "outputFolder"} \cup FolderOptions

\* parser defaults (lines 26-237); the input file of the base scenario lies
\* in a folder d.  csvTimeXYZTempColsIndex is kept as whether the string
\* parses as comma separated integers.
Defaults ==
  [o \in Options |->
     CASE o = "inputFile" -> <<"d", SEP, "night", DOT, "cwa">>
       [] o = "sampleRate" -> DefaultSampleRate
       [] o \in {"useFilter", "processInputFile", "deleteIntermediateFiles",
                 "csvTimeXYZTempColsIndex"} -> TRUE
       [] o \in {"startTime", "endTime"} -> None
       [] OTHER -> <<>>]

\* the other values an option is given in a run
Alternatives ==
  [o \in Options |->
     CASE o = "inputFile" ->
            << <<"night", DOT, "cwa">>, <<"d", SEP, "night">>,
               <<"d", SEP, "sample", DOT, "cwa", DOT, "gz">> >>
       [] o = "sampleRate" -> <<24, 25, 40, 41>>
       [] o \in {"useFilter", "processInputFile", "deleteIntermediateFiles",
                 "csvTimeXYZTempColsIndex"} -> <<FALSE>>
       [] o \in {"startTime", "endTime"} -> [i \in 1..(MaxTime + 1) |-> i - 1]
       [] o = "outputFolder" -> << <<"o">> >>
       [] OTHER -> << <<"x">> >>]

MaxOf(S) == CHOOSE x \in S : \A y \in S : y <= x

\* the parsed command lines: the defaults with at most k options changed
CommandLines(k) ==
  UNION {
    { [o \in Options |-> IF o \in D THEN Alternatives[o][ch[o]] ELSE Defaults[o]] :
        ch \in {c \in [D -> 1..MaxOf({Len(Alternatives[o]) : o \in Options})] :
                  \A o \in D : c[o] <= Len(Alternatives[o])} } :
    D \in {S \in SUBSET Options : Cardinality(S) <= k} }

\* args after parse_args: the options, and the derived files not yet set
Parsed(c) == [f \in Options \cup FileFields |-> IF f \in Options THEN c[f] ELSE <<>>]

\* ------------------------------------------------- configuration resolution
\* line 242: the sample rate floor
SampleRateSupported(a) == a.sampleRate >= MinSampleRate

\* faulty variant of SkipFilter: the bound itself is left out
SkipFilter_Strict(a) == a.sampleRate < FilterMaxRate

\* line 244: the low-pass filter is skipped at low sample rates
SkipFilter(a) == a.sampleRate <= FilterMaxRate

\* lines 255-259: without processing, an input path holding no dot gets .cwa
WithDefaultExtension(a) ==
  IF ~a.processInputFile /\ SplitDotLen(a.inputFile) < 2
  THEN [a EXCEPT !.inputFile = a.inputFile \o CwaExt]
  ELSE a

\* faulty variant of InputFileName: only the last extension is removed
InputFileName_LastDot(a) ==
  LET tail == OsPathSplit(a.inputFile)[2]
      i    == LastIndexOf(tail, DOT)
  IN  IF i = 0 THEN tail ELSE SubSeq(tail, 1, i - 1)

\* lines 262-263
InputFileFolder(a) == OsPathSplit(a.inputFile)[1]
InputFileName(a) == SplitDotFirst(OsPathSplit(a.inputFile)[2])

\* lines 266-267
OutputFolder(a) == IF a.outputFolder = <<>> THEN InputFileFolder(a) ELSE a.outputFolder

\* lines 268-281
FolderOf(a, f) == IF a[f] = <<>> THEN OutputFolder(a) ELSE a[f]

\* lines 262-289: the folders defaulted and the seven file names derived
Resolve(a) ==
  LET name == InputFileName(a)
      file(f, suffix) == OsPathJoin(FolderOf(a, f), name \o suffix)
  IN  [a EXCEPT
         !.outputFolder     = OutputFolder(a),
         !.summaryFolder    = FolderOf(a, "summaryFolder"),
         !.nonWearFolder    = FolderOf(a, "nonWearFolder"),
         !.epochFolder      = FolderOf(a, "epochFolder"),
         !.stationaryFolder = FolderOf(a, "stationaryFolder"),
         !.timeSeriesFolder = FolderOf(a, "timeSeriesFolder"),
         !.rawFolder        = FolderOf(a, "rawFolder"),
         !.npyFolder        = FolderOf(a, "npyFolder"),
         !.summaryFile      = file("summaryFolder", SummarySuffix),
         !.nonWearFile      = file("nonWearFolder", NonWearSuffix),
         !.epochFile        = file("epochFolder", EpochSuffix),
         !.stationaryFile   = file("stationaryFolder", StationarySuffix),
         !.tsFile           = file("timeSeriesFolder", TsSuffix),
         !.rawFile          = file("rawFolder", RawSuffix),
         !.npyFile          = file("npyFolder", NpySuffix)]

\* the configuration a command line resolves to when no check fails
Resolved(c) == Resolve(WithDefaultExtension(Parsed(c)))

\* faulty variant of FoldersToCheck: the npy folder is left out
FoldersToCheck_NoNpy(a) ==
  << a.summaryFolder, a.nonWearFolder, a.stationaryFolder, a.timeSeriesFolder,
     a.rawFolder, a.outputFolder >>
  \o (IF a.processInputFile THEN << a.epochFolder >> ELSE << >>)

\* lines 292-305: the folders whose write access is asserted, in order
FoldersToCheck(a) ==
  << a.summaryFolder, a.nonWearFolder, a.stationaryFolder, a.timeSeriesFolder,
     a.rawFolder, a.npyFolder, a.outputFolder >>
  \o (IF a.processInputFile THEN << a.epochFolder >> ELSE << >>)

\* faulty variant of CleanupEnabled: the handler is never registered
CleanupEnabled_Never(a) == FALSE

\* line 308
CleanupEnabled(a) == a.deleteIntermediateFiles

\* faulty variant of TimeWindowValid: equal times are refused
TimeWindowValid_Strict(a) ==
  (a.startTime # None /\ a.endTime # None) => a.startTime < a.endTime

\* faulty variant of TimeWindowValid: the order is not checked
TimeWindowValid_Unchecked(a) == TRUE

\* lines 320-321: the time window is in order, or not fully given
TimeWindowValid(a) ==
  (a.startTime # None /\ a.endTime # None) => a.startTime <= a.endTime

\* faulty variant of FileName: the raw input path in both branches
FileName_AlwaysInput(a) == a.inputFile

\* lines 339, 356: the value main() gives summary['file-name']
FileName(a) == IF a.processInputFile THEN a.inputFile ELSE a.epochFile

\* lines 377-379
summaryVals ==
  << "file-name", "file-startTime", "file-endTime", "acc-overall-avg",
     "wearTime-overall(days)", "nonWearTime-overall(days)",
     "quality-goodWearTime" >>

Range(s) == {s[i] : i \in 1..Len(s)}

\* faulty variant of HeadlinePresent: missing keys are passed over (dict.get)
HeadlinePresent_Lenient(s) == TRUE

\* line 380: summary[i] for every headline key raises KeyError on a missing one
HeadlinePresent(s) == Range(summaryVals) \subseteq DOMAIN s

\* ------------------------------------------------------------------- state
VARIABLES
  cli,            \* the parsed command line, as given
  args,           \* the argparse namespace main() resolves in place
  pc,             \* the position of main()
  writable,       \* the folders os.access(., W_OK) grants
  fs,             \* the files that exist
  fs0,            \* the files that existed when the process started
  summary,        \* the summary dict (key -> value)
  checks,         \* the validation checks passed so far, in order
  echoed,         \* the processing options have been printed
  error,          \* the exception that ended main(), kind "none" when none
  invoked,        \* the stages called so far, in order
  returned,       \* the stages that returned, in order
  running,        \* the stage executing now, "none" when none
  registrations,  \* how often atexit.register was called
  cleanupRuns,    \* how often deleteIntermediateFiles ran
  warned,         \* 'Could not delete intermediate files' was printed
  summaryWrites,  \* how often the summary file was opened for writing
  fileNameWrites, \* how often main() assigned summary['file-name']
  faulty,         \* the environment misbehaved in this process
  run,            \* the number of this process among the successive runs
  prev            \* the outcome of the previous process

vars ==
  << cli, args, pc, writable, fs, fs0, summary, checks, echoed, error, invoked,
     returned, running, registrations, cleanupRuns, warned, summaryWrites,
     fileNameWrites, faulty, run, prev >>

NoError == [kind |-> "none", detail |-> <<>>]
EmptySummary == [k \in {} |-> <<>>]
NoPrev == [outcome |-> "none", summary |-> EmptySummary, faulty |-> FALSE]

\* line 297: os.access(path, os.W_OK); the empty path names no folder
Access(path) == path # <<>> /\ path \in writable

\* the folders a command line refers to
Referenced(c) ==
  {Resolved(c)[f] : f \in FolderOptions \cup {"outputFolder"}} \ {<<>>}

\* the state of a process as main() starts on command line c
Started(c) ==
  /\ args = Parsed(c)
  /\ pc = "sampleRate"
  /\ summary = EmptySummary
  /\ checks = <<>>
  /\ echoed = FALSE
  /\ error = NoError
  /\ invoked = <<>>
  /\ returned = <<>>
  /\ running = "none"
  /\ registrations = 0
  /\ cleanupRuns = 0
  /\ warned = FALSE
  /\ summaryWrites = 0
  /\ fileNameWrites = 0
  /\ faulty = FALSE

InitWith(k) ==
  /\ cli \in CommandLines(k)
  /\ writable \in SUBSET Referenced(cli)
  /\ fs \in SUBSET {cli.inputFile, Resolved(cli).epochFile, Resolved(cli).stationaryFile}
  /\ fs0 = fs
  /\ run = 1
  /\ prev = NoPrev
  /\ Started(cli)

Init == InitWith(MaxDeviations)

\* an uncaught exception ends main(); the interpreter then runs its exit handlers
Raise(kind, detail) ==
  /\ pc' = "atexit"
  /\ error' = [kind |-> kind, detail |-> detail]

\* ------------------------------------------------------------- validation
\* lines 242-246
CheckSampleRate ==
  /\ pc = "sampleRate"
  /\ IF SampleRateSupported(args)
     THEN /\ args' = IF SkipFilter(args) THEN [args EXCEPT !.useFilter = FALSE] ELSE args
          /\ checks' = Append(checks, "sampleRate")
          /\ pc' = "inputFile"
          /\ UNCHANGED error
     ELSE /\ Raise("sampleRate", <<args.sampleRate>>)
          /\ UNCHANGED << args, checks >>
  /\ UNCHANGED << cli, writable, fs, fs0, summary, echoed, invoked, returned,
                  running, registrations, cleanupRuns, warned, summaryWrites,
                  fileNameWrites, faulty, run, prev >>

\* lines 253-259
CheckInputFile ==
  /\ pc = "inputFile"
  /\ IF args.processInputFile /\ args.inputFile \notin fs
     THEN /\ Raise("inputFile", args.inputFile)
          /\ UNCHANGED << args, checks >>
     ELSE /\ args' = WithDefaultExtension(args)
          /\ checks' = Append(checks, "inputFile")
          /\ pc' = "paths"
          /\ UNCHANGED error
  /\ UNCHANGED << cli, writable, fs, fs0, summary, echoed, invoked, returned,
                  running, registrations, cleanupRuns, warned, summaryWrites,
                  fileNameWrites, faulty, run, prev >>

\* lines 261-289
ResolvePaths ==
  /\ pc = "paths"
  /\ args' = Resolve(args)
  /\ pc' = "folders"
  /\ UNCHANGED << cli, writable, fs, fs0, summary, checks, echoed, error, invoked,
                  returned, running, registrations, cleanupRuns, warned,
                  summaryWrites, fileNameWrites, faulty, run, prev >>

\* lines 291-305: the first folder without write access raises
CheckFolders ==
  /\ pc = "folders"
  /\ LET F   == FoldersToCheck(args)
         bad == {i \in 1..Len(F) : ~Access(F[i])}
     IN  IF bad = {}
         THEN /\ checks' = Append(checks, "folders")
              /\ pc' = "register"
              /\ UNCHANGED error
         ELSE /\ Raise("folder", F[CHOOSE i \in bad : \A j \in bad : i <= j])
              /\ UNCHANGED checks
  /\ UNCHANGED << cli, args, writable, fs, fs0, summary, echoed, invoked, returned,
                  running, registrations, cleanupRuns, warned, summaryWrites,
                  fileNameWrites, faulty, run, prev >>

\* lines 307-317: atexit.register(deleteIntermediateFiles)
RegisterCleanup ==
  /\ pc = "register"
  /\ registrations' = IF CleanupEnabled(args) THEN registrations + 1 ELSE registrations
  /\ pc' = "timeWindow"
  /\ UNCHANGED << cli, args, writable, fs, fs0, summary, checks, echoed, error,
                  invoked, returned, running, cleanupRuns, warned, summaryWrites,
                  fileNameWrites, faulty, run, prev >>

\* lines 319-325
CheckTimeWindow ==
  /\ pc = "timeWindow"
  /\ IF TimeWindowValid(args)
     THEN /\ checks' = Append(checks, "timeWindow")
          /\ pc' = "echo"
          /\ UNCHANGED error
     ELSE /\ Raise("timeWindow", <<args.startTime, args.endTime>>)
          /\ UNCHANGED checks
  /\ UNCHANGED << cli, args, writable, fs, fs0, summary, echoed, invoked, returned,
                  running, registrations, cleanupRuns, warned, summaryWrites,
                  fileNameWrites, faulty, run, prev >>

\* lines 327-331
PrintOptions ==
  /\ pc = "echo"
  /\ echoed' = TRUE
  /\ pc' = "process"
  /\ UNCHANGED << cli, args, writable, fs, fs0, summary, checks, error, invoked,
                  returned, running, registrations, cleanupRuns, warned,
                  summaryWrites, fileNameWrites, faulty, run, prev >>

\* ------------------------------------------------------------------ stages
\* the headline keys the stages are to populate ('file-name' is main()'s)
StageKeys == Range(summaryVals) \ {"file-name"}

\* the keys the decode stage reports: the detected start and end of the file
DecodeKeys == {"file-startTime", "file-endTime"}

\* what a returning stage may populate of the keys K it is to populate
StageKeySets(K) == {S \in SUBSET K : Cardinality(K \ S) <= MaxMissing}

\* the value a stage computes for a key (opaque to main())
Measured == <<"measured">>

\* a stage adds keys; it overwrites none
Enriched(s, K) ==
  [k \in DOMAIN s \cup K |-> IF k \in DOMAIN s THEN s[k] ELSE Measured]

\* the files processInputFileToEpoch writes
DecodeOutputs(a) == {a.epochFile, a.stationaryFile}

\* getActivitySummary reads the epoch file
EpochFileReadable(a) == a.epochFile \in fs

\* the files writeTimeSeries writes
TimeSeriesOutputs(a) == {a.tsFile}

\* lines 338, 355: where main() goes after the options are printed
FirstStep(a) == IF a.processInputFile THEN "decode" ELSE "summarise"

\* faulty variant of AfterStage: the time series is written right after decoding
AfterStage_SkipsSummary(stage) ==
  CASE stage = "processInputFileToEpoch" -> "timeSeries"
    [] stage = "getActivitySummary"      -> "timeSeries"
    [] stage = "writeTimeSeries"         -> "shortSummary"

\* lines 340-373: where main() goes when a stage returns
AfterStage(stage) ==
  CASE stage = "processInputFileToEpoch" -> "summarise"
    [] stage = "getActivitySummary"      -> "timeSeries"
    [] stage = "writeTimeSeries"         -> "shortSummary"

\* a stage is called
Call(stage) ==
  /\ invoked' = Append(invoked, stage)
  /\ running' = stage
  /\ pc' = "running"

\* a stage returns
Return(stage) ==
  /\ returned' = Append(returned, stage)
  /\ running' = "none"
  /\ pc' = AfterStage(stage)

\* a stage raises: main() catches nothing
StageRaises(stage) ==
  /\ running' = "none"
  /\ Raise("stage", <<stage>>)

\* lines 336-339, 355-356: summary = {} and summary['file-name']
StartProcessing ==
  /\ pc = "process"
  /\ summary' = [k \in {"file-name"} |-> FileName(args)]
  /\ fileNameWrites' = fileNameWrites + 1
  /\ pc' = FirstStep(args)
  /\ UNCHANGED << cli, args, writable, fs, fs0, checks, echoed, error, invoked,
                  returned, running, registrations, cleanupRuns, warned,
                  summaryWrites, faulty, run, prev >>

\* lines 340-354: the arguments are evaluated (the column indexes parsed as
\* integers, which raises ValueError) and processInputFileToEpoch is called
CallProcessInputFileToEpoch ==
  /\ pc = "decode"
  /\ IF args.csvTimeXYZTempColsIndex
     THEN /\ Call("processInputFileToEpoch")
          /\ UNCHANGED error
     ELSE /\ Raise("ValueError", <<>>)
          /\ UNCHANGED << invoked, running >>
  /\ UNCHANGED << cli, args, writable, fs, fs0, summary, checks, echoed, returned,
                  registrations, cleanupRuns, warned, summaryWrites,
                  fileNameWrites, faulty, run, prev >>

ProcessInputFileToEpochReturns ==
  /\ pc = "running" /\ running = "processInputFileToEpoch"
  /\ \E K \in StageKeySets(DecodeKeys) :
       /\ summary' = Enriched(summary, K)
       /\ faulty' = (faulty \/ K # DecodeKeys)
  /\ fs' = fs \cup DecodeOutputs(args)
  /\ Return("processInputFileToEpoch")
  /\ UNCHANGED << cli, args, writable, fs0, checks, echoed, error, invoked,
                  registrations, cleanupRuns, warned, summaryWrites,
                  fileNameWrites, run, prev >>

ProcessInputFileToEpochRaises ==
  /\ pc = "running" /\ running = "processInputFileToEpoch"
  /\ \E left \in SUBSET DecodeOutputs(args) : fs' = fs \cup left
  /\ faulty' = TRUE
  /\ StageRaises("processInputFileToEpoch")
  /\ UNCHANGED << cli, args, writable, fs0, summary, checks, echoed, invoked,
                  returned, registrations, cleanupRuns, warned, summaryWrites,
                  fileNameWrites, run, prev >>

\* lines 358-370
CallGetActivitySummary ==
  /\ pc = "summarise"
  /\ Call("getActivitySummary")
  /\ UNCHANGED << cli, args, writable, fs, fs0, summary, checks, echoed, error,
                  returned, registrations, cleanupRuns, warned, summaryWrites,
                  fileNameWrites, faulty, run, prev >>

GetActivitySummaryReturns ==
  /\ pc = "running" /\ running = "getActivitySummary"
  /\ EpochFileReadable(args)
  /\ \E K \in StageKeySets(StageKeys) :
       /\ summary' = Enriched(summary, K)
       /\ faulty' = (faulty \/ K # StageKeys)
  /\ Return("getActivitySummary")
  /\ UNCHANGED << cli, args, writable, fs, fs0, checks, echoed, error, invoked,
                  registrations, cleanupRuns, warned, summaryWrites,
                  fileNameWrites, run, prev >>

\* it raises when the epoch file is missing, or for a reason of its own
GetActivitySummaryRaises ==
  /\ pc = "running" /\ running = "getActivitySummary"
  /\ \E own \in BOOLEAN :
       /\ own \/ ~EpochFileReadable(args)
       /\ faulty' = (faulty \/ own)
  /\ StageRaises("getActivitySummary")
  /\ UNCHANGED << cli, args, writable, fs, fs0, summary, checks, echoed, invoked,
                  returned, registrations, cleanupRuns, warned, summaryWrites,
                  fileNameWrites, run, prev >>

\* lines 372-373
CallWriteTimeSeries ==
  /\ pc = "timeSeries"
  /\ Call("writeTimeSeries")
  /\ UNCHANGED << cli, args, writable, fs, fs0, summary, checks, echoed, error,
                  returned, registrations, cleanupRuns, warned, summaryWrites,
                  fileNameWrites, faulty, run, prev >>

WriteTimeSeriesReturns ==
  /\ pc = "running" /\ running = "writeTimeSeries"
  /\ fs' = fs \cup TimeSeriesOutputs(args)
  /\ Return("writeTimeSeries")
  /\ UNCHANGED << cli, args, writable, fs0, summary, checks, echoed, error,
                  invoked, registrations, cleanupRuns, warned, summaryWrites,
                  fileNameWrites, faulty, run, prev >>

WriteTimeSeriesRaises ==
  /\ pc = "running" /\ running = "writeTimeSeries"
  /\ faulty' = TRUE
  /\ StageRaises("writeTimeSeries")
  /\ UNCHANGED << cli, args, writable, fs, fs0, summary, checks, echoed, invoked,
                  returned, registrations, cleanupRuns, warned, summaryWrites,
                  fileNameWrites, run, prev >>

\* ---------------------------------------------------------------- summary
\* lines 375-381: a missing headline key raises KeyError
PrintShortSummary ==
  /\ pc = "shortSummary"
  /\ IF HeadlinePresent(summary)
     THEN pc' = "writeSummary" /\ UNCHANGED error
     ELSE Raise("KeyError", <<>>)
  /\ UNCHANGED << cli, args, writable, fs, fs0, summary, checks, echoed, invoked,
                  returned, running, registrations, cleanupRuns, warned,
                  summaryWrites, fileNameWrites, faulty, run, prev >>

\* lines 383-395: the summary file is written and main() returns
WriteSummary ==
  /\ pc = "writeSummary"
  /\ summaryWrites' = summaryWrites + 1
  /\ fs' = fs \cup {args.summaryFile}
  /\ pc' = "atexit"
  /\ UNCHANGED << cli, args, writable, fs0, summary, checks, echoed, error,
                  invoked, returned, running, registrations, cleanupRuns, warned,
                  fileNameWrites, faulty, run, prev >>

\* ---------------------------------------------------------------- cleanup
\* faulty variant of deleteIntermediateFiles: the epoch file is not removed
deleteIntermediateFiles_KeepsEpoch(a, files, failS, failE) ==
  IF a.stationaryFile \in files /\ failS
  THEN [fs |-> files, warned |-> TRUE]
  ELSE [fs |-> files \ {a.stationaryFile}, warned |-> FALSE]

\* lines 310-317: deleteIntermediateFiles on the files `files`; failS, failE
\* say whether os.remove raises OSError on the stationary and the epoch file.
\* The first OSError ends the try block.
deleteIntermediateFiles(a, files, failS, failE) ==
  IF a.stationaryFile \in files /\ failS
  THEN [fs |-> files, warned |-> TRUE]
  ELSE IF a.epochFile \in files /\ failE
  THEN [fs |-> files \ {a.stationaryFile}, warned |-> TRUE]
  ELSE [fs |-> files \ {a.stationaryFile, a.epochFile}, warned |-> FALSE]

\* the interpreter exits: every registered handler runs once
AtExit ==
  /\ pc = "atexit"
  /\ IF registrations > 0
     THEN \E failS, failE \in BOOLEAN :
            LET r == deleteIntermediateFiles(args, fs, failS, failE)
            IN  /\ fs' = r.fs
                /\ warned' = r.warned
                /\ faulty' = (faulty \/ r.warned)
     ELSE UNCHANGED << fs, warned, faulty >>
  /\ cleanupRuns' = cleanupRuns + registrations
  /\ pc' = "exited"
  /\ UNCHANGED << cli, args, writable, fs0, summary, checks, echoed, error,
                  invoked, returned, running, registrations, summaryWrites,
                  fileNameWrites, run, prev >>

\* the same command line is run again on the files the last run left
Rerun ==
  /\ pc = "exited"
  /\ run < MaxRuns
  /\ run' = run + 1
  /\ prev' = [outcome |-> error.kind, summary |-> summary, faulty |-> faulty]
  /\ fs0' = fs
  /\ args' = Parsed(cli)
  /\ pc' = "sampleRate"
  /\ summary' = EmptySummary
  /\ checks' = <<>>
  /\ echoed' = FALSE
  /\ error' = NoError
  /\ invoked' = <<>>
  /\ returned' = <<>>
  /\ running' = "none"
  /\ registrations' = 0
  /\ cleanupRuns' = 0
  /\ warned' = FALSE
  /\ summaryWrites' = 0
  /\ fileNameWrites' = 0
  /\ faulty' = FALSE
  /\ UNCHANGED << cli, writable, fs >>

\* ------------------------------------------------------------ specifications
Next ==
  \/ CheckSampleRate
  \/ CheckInputFile
  \/ ResolvePaths
  \/ CheckFolders
  \/ RegisterCleanup
  \/ CheckTimeWindow
  \/ PrintOptions
  \/ StartProcessing
  \/ CallProcessInputFileToEpoch
  \/ ProcessInputFileToEpochReturns
  \/ ProcessInputFileToEpochRaises
  \/ CallGetActivitySummary
  \/ GetActivitySummaryReturns
  \/ GetActivitySummaryRaises
  \/ CallWriteTimeSeries
  \/ WriteTimeSeriesReturns
  \/ WriteTimeSeriesRaises
  \/ PrintShortSummary
  \/ WriteSummary
  \/ AtExit

\* one run of the program
Spec == Init /\ [][Next]_vars

InitTwice == InitWith(MaxDeviations - 1)

NextTwice == Next \/ Rerun

\* the program run MaxRuns times in succession on one command line
SpecTwice == InitTwice /\ [][NextTwice]_vars

\* the input paths the path derivation is run on
PathInputs ==
  { << "night", DOT, "cwa" >>,
    << "d", SEP, "night", DOT, "cwa" >>,
    << "d", SEP, "night" >>,
    << "d", SEP, "sample", DOT, "cwa", DOT, "gz" >>,
    << DOT, SEP, "night" >> }

\* the command lines the path derivation is run on: any input path, with or
\* without processing, the output folder given or not, and any of the seven
\* folder options given (each one a folder of its own, named after it)
PathCommandLines ==
  { [o \in Options |->
       CASE o = "inputFile" -> i
         [] o = "processInputFile" -> p
         [] o = "outputFolder" -> out
         [] o \in FolderOptions -> (IF o \in given THEN << o >> ELSE << >>)
         [] OTHER -> Defaults[o]] :
      i \in PathInputs, p \in BOOLEAN, out \in { << >>, << "o" >> },
      given \in SUBSET FolderOptions }

InitPaths ==
  /\ cli \in PathCommandLines
  /\ writable = Referenced(cli)
  /\ fs \in SUBSET {cli.inputFile}
  /\ fs0 = fs
  /\ run = 1
  /\ prev = NoPrev
  /\ Started(cli)

NextPaths ==
  \/ CheckSampleRate
  \/ CheckInputFile
  \/ ResolvePaths

\* main() up to the derivation of the output paths (line 289)
SpecPaths == InitPaths /\ [][NextPaths]_vars

\* ------------------------------------------------------------------ claims
Exited == pc = "exited"

IsPrefix(s, t) == Len(s) <= Len(t) /\ \A i \in 1..Len(s) : s[i] = t[i]

\* the stage plan of a command line
Plan(c) ==
  IF c.processInputFile
  THEN << "processInputFileToEpoch", "getActivitySummary", "writeTimeSeries" >>
  ELSE << "getActivitySummary", "writeTimeSeries" >>

AllChecks == << "sampleRate", "inputFile", "folders", "timeWindow" >>

\* os.path.dirname
Parent(path) == OsPathSplit(path)[1]

HeadlineKeys ==
  { "file-name", "file-startTime", "file-endTime", "acc-overall-avg",
    "wearTime-overall(days)", "nonWearTime-overall(days)", "quality-goodWearTime" }

\* C1, as the spec states it: with deleteIntermediateFiles enabled, after the
\* process has exited on any exit path the stationary-points file and the
\* epoch file are both absent.
C1_AbsentOnEveryExitPath ==
  (Exited /\ cli.deleteIntermediateFiles) =>
     /\ Resolved(cli).stationaryFile \notin fs
     /\ Resolved(cli).epochFile \notin fs

\* C1, amended: with deleteIntermediateFiles enabled, a run that ends on a
\* failed sample-rate, input-file or folder check has registered no cleanup,
\* has run no stage and leaves the files as they were before the run; on
\* every other exit path the cleanup runs once at exit, and both files are
\* then absent unless os.remove raised OSError (which is reported).
C1_CleanupOnExit ==
  (Exited /\ cli.deleteIntermediateFiles) =>
     IF error.kind \in {"sampleRate", "inputFile", "folder"}
     THEN /\ registrations = 0
          /\ cleanupRuns = 0
          /\ invoked = <<>>
          /\ fs = fs0
     ELSE /\ cleanupRuns = 1
          /\ ~warned => /\ args.stationaryFile \notin fs
                        /\ args.epochFile \notin fs

\* a stage failed after the decode stage had written both files, and the
\* cleanup removed them
C1_Witness ==
  /\ Exited /\ cli.deleteIntermediateFiles
  /\ error.kind = "stage"
  /\ returned = << "processInputFileToEpoch" >>
  /\ cleanupRuns = 1 /\ ~warned
  /\ args.epochFile \notin fs /\ args.stationaryFile \notin fs

\* C2: the sample-rate, input-file, folder and time-window errors are raised,
\* and the options are printed, before any stage is called and before the
\* summary file is opened; on each of these error paths no stage has run and
\* no summary file has been written.
C2_ValidationBeforeStages ==
  /\ (invoked # <<>> \/ running # "none" \/ summaryWrites > 0) =>
        (echoed /\ checks = AllChecks)
  /\ echoed =>
        /\ checks = AllChecks
        /\ cli.sampleRate >= 25
        /\ cli.processInputFile => cli.inputFile \in fs0
        /\ ~(cli.startTime # None /\ cli.endTime # None /\ cli.startTime > cli.endTime)
        /\ \A f \in (FolderOptions \ {"epochFolder"}) \cup {"outputFolder"} :
              args[f] # <<>> /\ args[f] \in writable
        /\ cli.processInputFile =>
              (args.epochFolder # <<>> /\ args.epochFolder \in writable)
  /\ error.kind \in {"sampleRate", "inputFile", "folder", "timeWindow"} =>
        /\ ~echoed
        /\ invoked = <<>>
        /\ summaryWrites = 0
        /\ fs \subseteq fs0

\* the last of the checks failed: the run ended before the options were printed
C2_Witness ==
  /\ Exited
  /\ error.kind = "timeWindow"
  /\ checks = << "sampleRate", "inputFile", "folders" >>
  /\ ~echoed /\ invoked = <<>>

\* C3: the stages are called in the order of the plan, each at most once and
\* only after the one before it has returned; when a stage raises, no later
\* stage is called.
C3_StageOrder ==
  /\ IsPrefix(invoked, Plan(cli))
  /\ IsPrefix(returned, invoked)
  /\ Len(invoked) <= Len(returned) + 1
  /\ running # "none" =>
        /\ Len(invoked) = Len(returned) + 1
        /\ running = invoked[Len(invoked)]
  /\ error.kind = "stage" =>
        /\ Len(invoked) = Len(returned) + 1
        /\ error.detail = << invoked[Len(invoked)] >>
  /\ (Exited /\ error.kind = "none") => returned = Plan(cli)

\* the second stage of a full plan raised: the third was never called
C3_Witness ==
  /\ Exited
  /\ error.kind = "stage"
  /\ invoked = << "processInputFileToEpoch", "getActivitySummary" >>
  /\ returned = << "processInputFileToEpoch" >>

\* C4: with deleteIntermediateFiles the cleanup is registered before any
\* stage is called; it is registered at most once, runs exactly once when
\* the process exits, and never while a stage is executing.
C4_CleanupArmedOnce ==
  /\ ((invoked # <<>> \/ pc \in {"decode", "summarise"}) /\ cli.deleteIntermediateFiles) =>
        registrations = 1
  /\ registrations <= 1
  /\ cleanupRuns <= registrations
  /\ Exited => cleanupRuns = registrations
  /\ cleanupRuns > 0 => (running = "none" /\ Exited)

\* the run ended on a missing headline key and the cleanup ran once
C4_Witness ==
  /\ Exited
  /\ error.kind = "KeyError"
  /\ registrations = 1
  /\ cleanupRuns = 1

\* C5: the summary file is written at most once, only after every stage of
\* the plan has returned and all seven headline keys are in the summary; when
\* a stage raises or a headline key is missing the run fails and no summary
\* file is written.
C5_SummaryWrittenOnce ==
  /\ summaryWrites <= 1
  /\ summaryWrites = 1 =>
        /\ returned = Plan(cli)
        /\ error.kind = "none"
        /\ HeadlineKeys \subseteq DOMAIN summary
  /\ args.summaryFile # <<>> /\ args.summaryFile \in fs => summaryWrites = 1
  /\ (Exited /\ (error.kind = "stage"
                 \/ (returned = Plan(cli) /\ ~(HeadlineKeys \subseteq DOMAIN summary)))) =>
        /\ error.kind \in {"stage", "KeyError"}
        /\ summaryWrites = 0
        /\ args.summaryFile \notin fs

\* every stage returned, a headline key was missing, nothing was written
C5_Witness ==
  /\ Exited
  /\ returned = Plan(cli)
  /\ ~(HeadlineKeys \subseteq DOMAIN summary)
  /\ error.kind = "KeyError"
  /\ summaryWrites = 0

\* C6: run twice in succession with processInputFile=False and the default
\* deleteIntermediateFiles on one pre-existing epoch file, with nothing in
\* the environment misbehaving, the second run finds the epoch file as the
\* first did, both runs complete and the second summary equals the first.
C6_Idempotent ==
  (/\ run = 2 /\ Exited
   /\ ~cli.processInputFile /\ cli.deleteIntermediateFiles
   /\ prev.outcome = "none" /\ ~prev.faulty /\ ~faulty) =>
     /\ args.epochFile \in fs0
     /\ error.kind = "none"
     /\ summary = prev.summary

\* C7, as the spec states it: once the folder checks have passed, the parent
\* folder of each of the seven derived paths is writable, and a folder that
\* is not makes the run fail with an error naming it, whether or not the
\* input file is processed.
C7_AllSevenFoldersWritable ==
  /\ Len(checks) >= 3 =>
        \A f \in FileFields : Parent(args[f]) # <<>> /\ Parent(args[f]) \in writable
  /\ (Len(checks) = 2 /\ pc \in {"atexit", "exited"}) =>
        /\ error.kind = "folder"
        /\ error.detail = <<>> \/ error.detail \notin writable

\* C7, amended: once the folder checks have passed, the output folder and
\* the parent folders of the summary, non-wear, stationary, time-series, raw
\* and npy paths are writable, and that of the epoch path too when
\* processInputFile is true; when one of these is not writable the run fails
\* with an error naming a folder that is not.  With processInputFile false
\* the epoch folder is not checked.
C7_CheckedFoldersWritable ==
  LET required ==
        {"summaryFile", "nonWearFile", "stationaryFile", "tsFile", "rawFile", "npyFile"}
        \cup (IF cli.processInputFile THEN {"epochFile"} ELSE {})
      ok(folder) == folder # <<>> /\ folder \in writable
  IN  /\ Len(checks) >= 3 =>
            /\ \A f \in required : ok(Parent(args[f]))
            /\ ok(args.outputFolder)
      /\ (Len(checks) = 2 /\ pc \in {"atexit", "exited"}) =>
            /\ error.kind = "folder"
            /\ ~ok(error.detail)
            /\ error.detail \in {Parent(args[f]) : f \in required} \cup {args.outputFolder}

\* without processing, the checks passed although the epoch folder is not writable
C7_Witness ==
  /\ Len(checks) >= 3
  /\ ~cli.processInputFile
  /\ Parent(args.epochFile) \notin writable

\* C8: the bare input night.cwa with every option at its default, the file
\* existing and no stage misbehaving: validation passes, the three stages run,
\* night-summary.json is written with file-name night.cwa, and after the exit
\* night-epoch.csv.gz, night-timeSeries.csv.gz and night-summary.json exist.
C8_DefaultScenario ==
  (/\ Exited
   /\ cli = [Defaults EXCEPT !.inputFile = << "night", DOT, "cwa" >>]
   /\ cli.inputFile \in fs0
   /\ ~faulty) =>
     /\ checks = AllChecks
     /\ returned = << "processInputFileToEpoch", "getActivitySummary", "writeTimeSeries" >>
     /\ summaryWrites = 1
     /\ "file-name" \in DOMAIN summary
     /\ summary["file-name"] = << "night", DOT, "cwa" >>
     /\ { << "night", "-epoch", DOT, "csv", DOT, "gz" >>,
          << "night", "-timeSeries", DOT, "csv", DOT, "gz" >>,
          << "night", "-summary", DOT, "json" >> } \subseteq fs

\* C9: processInputFileToEpoch is called exactly when processInputFile is
\* true; main() sets summary['file-name'] once, before the first stage, to the
\* raw input path when processing and to the derived epoch path otherwise;
\* and main() does not check that the epoch file exists.
C9_StagePlanSelection ==
  /\ "processInputFileToEpoch" \in Range(invoked) => cli.processInputFile
  /\ ("getActivitySummary" \in Range(invoked) /\ cli.processInputFile) =>
        invoked[1] = "processInputFileToEpoch"
  /\ fileNameWrites <= 1
  /\ (invoked # <<>> \/ pc \in {"decode", "summarise"}) => fileNameWrites = 1
  /\ fileNameWrites = 1 =>
        /\ "file-name" \in DOMAIN summary
        /\ summary["file-name"] =
             IF cli.processInputFile
             THEN cli.inputFile
             ELSE args.epochFile
  /\ (Exited /\ echoed /\ ~cli.processInputFile) =>
        "getActivitySummary" \in Range(invoked)

\* without processing and without an epoch file, getActivitySummary was
\* called on the derived epoch path all the same
C9_Witness ==
  /\ ~cli.processInputFile
  /\ args.epochFile # <<>> /\ args.epochFile \notin fs0
  /\ "getActivitySummary" \in Range(invoked)
  /\ summary["file-name"] = args.epochFile

\* C10: a sample rate below 25 fails before any other check or stage; from 25
\* to 40 the resolved useFilter is false whatever the user gave, without an
\* error; above 40 it is the user's value.
C10_SampleRateRule ==
  /\ (cli.sampleRate < 25 /\ pc # "sampleRate") =>
        /\ pc \in {"atexit", "exited"}
        /\ error.kind = "sampleRate"
        /\ checks = <<>>
        /\ invoked = <<>>
  /\ cli.sampleRate >= 25 => error.kind # "sampleRate"
  /\ (cli.sampleRate >= 25 /\ cli.sampleRate <= 40 /\ pc # "sampleRate") =>
        args.useFilter = FALSE
  /\ cli.sampleRate > 40 => args.useFilter = cli.useFilter

\* at 40 Hz the user's filter request was dropped and the run went on
C10_Witness ==
  /\ cli.sampleRate = 40
  /\ cli.useFilter
  /\ ~args.useFilter
  /\ echoed

\* the seven derived files: the field, its folder option and its suffix
Derived ==
  { << "summaryFile",    "summaryFolder",    << "-summary", ".", "json" >> >>,
    << "nonWearFile",    "nonWearFolder",    << "-nonWearBouts", ".", "csv", ".", "gz" >> >>,
    << "epochFile",      "epochFolder",      << "-epoch", ".", "csv", ".", "gz" >> >>,
    << "stationaryFile", "stationaryFolder", << "-stationaryPoints", ".", "csv", ".", "gz" >> >>,
    << "tsFile",         "timeSeriesFolder", << "-timeSeries", ".", "csv", ".", "gz" >> >>,
    << "rawFile",        "rawFolder",        << ".", "csv", ".", "gz" >> >>,
    << "npyFile",        "npyFolder",        << ".", "npy" >> >> }

\* the file name component of a path, cut at its first dot
Stem(path) ==
  LET name == OsPathSplit(path)[2]
      dots == {i \in 1..Len(name) : name[i] = "."}
  IN  IF dots = {} THEN name
      ELSE SubSeq(name, 1, (CHOOSE i \in dots : \A j \in dots : i <= j) - 1)

\* the folder of a derived file: its own option, else the output folder
\* option, else the folder holding the input file
FolderFor(c, option) ==
  IF c[option] # << >> THEN c[option]
  ELSE IF c.outputFolder # << >> THEN c.outputFolder
  ELSE Parent(c.inputFile)

\* every derived path is join(F, stem + suffix), from the path as supplied
PathsDerived ==
  pc = "folders" =>
     \A d \in Derived :
        args[d[1]] = OsPathJoin(FolderFor(cli, d[2]), Stem(cli.inputFile) \o d[3])

\* the path has an extension: a dot in its file name component, after a
\* character that is not a dot (os.path.splitext)
HasExtension(path) ==
  LET name == OsPathSplit(path)[2]
  IN  \E i \in 2..Len(name) : name[i] = "." /\ \E j \in 1..(i - 1) : name[j] # "."

\* C11, as the spec states it: every derived path is join(F, stem + suffix)
\* and, when processing is skipped and the supplied path has no extension,
\* '.cwa' is appended to the input path before the derivation.
C11_AppendedWhenNoExtension ==
  /\ PathsDerived
  /\ (Len(checks) >= 2 /\ ~cli.processInputFile /\ ~HasExtension(cli.inputFile)) =>
        args.inputFile = cli.inputFile \o << ".", "cwa" >>

\* C11, amended: every derived path is join(F, stem + suffix), F the
\* artifact's own folder option, else the output folder option, else the
\* folder holding the input file, and stem the input's file name cut at its
\* first dot; '.cwa' is appended to the input path exactly when processing
\* is skipped and the supplied path holds no dot at all, its folder part
\* included.
C11_PathDerivation ==
  /\ PathsDerived
  /\ Len(checks) >= 2 =>
        args.inputFile =
          IF ~cli.processInputFile /\ \A i \in 1..Len(cli.inputFile) : cli.inputFile[i] # "."
          THEN cli.inputFile \o << ".", "cwa" >>
          ELSE cli.inputFile

\* sample.cwa.gz in d, with a summary folder of its own and no output folder:
\* the stem is sample, the summary goes to its folder and the epoch file to d
C11_Witness ==
  /\ pc = "folders"
  /\ cli.inputFile = << "d", "/", "sample", ".", "cwa", ".", "gz" >>
  /\ cli.outputFolder = << >> /\ cli.epochFolder = << >>
  /\ args.summaryFile = << "summaryFolder", "/", "sample", "-summary", ".", "json" >>
  /\ args.epochFile = << "d", "/", "sample", "-epoch", ".", "csv", ".", "gz" >>

\* C12: the time-window check fails exactly when startTime and endTime are
\* both given and startTime > endTime, the error reports both values and no
\* stage is called; with equal or ordered times, or with either absent, the
\* check passes.
C12_TimeWindowRule ==
  LET inverted == /\ cli.startTime # None
                  /\ cli.endTime # None
                  /\ cli.startTime > cli.endTime
  IN  /\ error.kind = "timeWindow" =>
            /\ inverted
            /\ error.detail = << cli.startTime, cli.endTime >>
            /\ invoked = << >>
            /\ running = "none"
            /\ ~echoed
      /\ (Len(checks) >= 3 /\ pc \notin {"register", "timeWindow"}) =>
            /\ error.kind = "timeWindow" <=> inverted
            /\ ~inverted => checks = AllChecks

\* startTime and endTime given and equal: the check passed and the run went on
C12_Witness ==
  /\ cli.startTime # None
  /\ cli.startTime = cli.endTime
  /\ checks = AllChecks
  /\ echoed

====
